---------------------------- MODULE Spec2Model ----------------------------
(***************************************************************************)
(* tokio-signalfd: a signalfd(2) descriptor wrapped in a tokio             *)
(* PollEvented and exposed as a futures 0.1 Stream of signal numbers.      *)
(*                                                                         *)
(* The model holds the part of the operating system the code talks to      *)
(* (the thread's signal mask, the pending standard signals, the descriptor *)
(* table, the reactor's epoll interest list) and the part of tokio it      *)
(* drives (the PollEvented readiness cache and the task's wake-up), and,   *)
(* on top of them, the operations of src/src/lib.rs: SignalFd::new,        *)
(* from_raw_fd, as_raw_fd, Stream::poll and Drop.                          *)
(*                                                                         *)
(* One thread runs the streams (spec section 5); signals and the reactor   *)
(* are asynchronous to it, so poll is two steps: the readiness check       *)
(* (line 131) and the read with its decoding (lines 133-141).              *)
(***************************************************************************)
EXTENDS Integers, Sequences, FiniteSets, TLC

(***************************************************************************)
(* Bounds of the model.                                                    *)
(***************************************************************************)
MaxStreams == 2
MaxFd == 2
MaxRaises == 2

(***************************************************************************)
(* Program constants.                                                      *)
(***************************************************************************)
SIGINT == 2
SIGTERM == 15
\* size_of::<signalfd_siginfo>(): ssi_signo: u32 and _dont_care: [u8; 124]
RecordSize == 4 + 124

\* SIGKILL (and SIGSTOP): sigaddset accepts it, the kernel never blocks it
Unblockable == {9}
\* the signals that can be sent to the process
Sigs == {SIGINT, SIGTERM} \cup Unblockable
ValidSig(n) == n \in Sigs

Sid == 1..MaxStreams
Fd == 1..MaxFd

VARIABLES
    faults,     \* whether libc calls may fail as POSIX allows, beyond what Linux does
    proc,       \* "running", or "killed" by a signal's default disposition
    sigmask,    \* the blocked signals of the thread
    pending,    \* the pending standard signals (a set: they do not queue)
    files,      \* the descriptor table: Fd -> open file or NoFile
    held,       \* descriptors opened outside the crate and not yet given to a stream
    epoll,      \* the reactor's interest list: Fd -> 0 or the token (stream) registered
    rdlist,     \* descriptors woken since the reactor last looked (edge-triggered)
    streams,    \* Sid -> the SignalFd value and its PollEvented state
    pc,         \* the poll in progress: [sid, at]
    raised,     \* history: the signals raised, in order, each with whether it was
                \* queued (it was blocked and not yet pending)
    ret         \* what the thread's last operation returned to its caller

vars == <<faults, proc, sigmask, pending, files, held, epoll, rdlist, streams,
          pc, raised, ret>>

NoFile == [kind |-> "none", mask |-> {}, nonblock |-> FALSE]
\* st: "none", "live" or "dropped"; fd: the Inner; viaNew, set: built by SignalFd::new over
\* that list's numbers; reg: the PollEvented's registration; ioReady: the
\* readiness the reactor has stored for it; cached: its read-readiness cache;
\* waiting: its task is parked as the reader; runnable: its task is scheduled;
\* out: the elements produced; shared: its descriptor was given to more than
\* one stream; lost: its descriptor was closed by another owner; erred: a poll
\* of it returned Err
NoStream ==
    [st |-> "none", fd |-> 0, viaNew |-> FALSE, set |-> {}, reg |-> "init",
     ioReady |-> FALSE, cached |-> FALSE, waiting |-> FALSE, runnable |-> FALSE,
     out |-> <<>>, shared |-> FALSE, lost |-> FALSE, erred |-> FALSE]
Idle == [sid |-> 0, at |-> "idle"]
\* op: the operation; sid: its stream; res: its result; code: the error code in
\* an Err; failed, oscode: the first OS call that failed in it and the code the
\* OS gave for it; fd: a descriptor returned; read: what the read returned;
\* val: the element produced; shared, lost: the stream's flags at its teardown;
\* dereg: what the deregistration of a teardown returned; parked: the task was
\* suspended as the reader at the teardown; pend: the signals pending then
NoRet == [op |-> "none", sid |-> 0, res |-> "none", code |-> "none",
          failed |-> "none", oscode |-> "none", fd |-> 0, read |-> "none",
          val |-> 0, shared |-> FALSE, lost |-> FALSE,
          dereg |-> "none", parked |-> FALSE, pend |-> {}]

Min(S) == CHOOSE x \in S : \A y \in S : x <= y
IsOpen(fd) == files[fd].kind # "none"
FreeFds == {fd \in Fd : ~IsOpen(fd)}
FreeSids == {s \in Sid : streams[s].st = "none"}
Live(s) == streams[s].st = "live"

\* the lists SignalFd::new is called with: one signal, two in either order,
\* one twice, the unblockable one, and lists holding what is no signal number
SignalLists ==
    {<<SIGINT>>, <<SIGINT, SIGTERM>>, <<SIGTERM, SIGINT>>,
     <<SIGINT, SIGINT>>, <<9>>, <<0>>, <<SIGINT, 0>>}

Range(q) == {q[i] : i \in 1..Len(q)}

Init ==
    /\ faults = FALSE
    /\ proc = "running"
    /\ sigmask = {}
    /\ pending = {}
    /\ files = [fd \in Fd |-> NoFile]
    /\ held = {}
    /\ epoll = [fd \in Fd |-> 0]
    /\ rdlist = {}
    /\ streams = [s \in Sid |-> NoStream]
    /\ pc = Idle
    /\ raised = <<>>
    /\ ret = NoRet

\* the thread is between operations: no poll is half way
ThreadFree == proc = "running" /\ pc = Idle

(***************************************************************************)
(* Inner::new (lines 24-45).                                               *)
(***************************************************************************)
\* lines 31-35: sigaddset in list order; the index of the first number it
\* refuses, 0 when it takes them all
FirstRefused(signals) ==
    LET bad == {i \in 1..Len(signals) : ~ValidSig(signals[i])}
    IN  IF bad = {} THEN 0 ELSE Min(bad)

\* lines 26-35: the set built by sigemptyset and the sigaddset loop
SigSetFullBug(signals) == Sigs
SigSetToggle(signals) ==
    {x \in Range(signals) :
        Cardinality({i \in 1..Len(signals) : signals[i] = x}) % 2 = 1}
SigSetOf(signals) == Range(signals)

\* pthread_sigmask(SIG_BLOCK, set): SIGKILL and SIGSTOP are silently left out
BlockNothing(mask, set) == mask
BlockReplace(mask, set) == set \ Unblockable
BlockMask(mask, set) == mask \cup (set \ Unblockable)

\* what the calls can return. sigemptyset: 0, or -1 with errno; pthread_sigmask:
\* 0, or the error number itself (it does not set errno); signalfd: the
\* descriptor, or -1 with errno.
SigemptysetResults == IF faults THEN {0, -1} ELSE {0}
PthreadSigmaskResults == IF faults THEN {0, 22} ELSE {0}
SignalfdFaults == IF faults THEN {"none", "ENOMEM"} ELSE {"none"}
\* read: what the descriptor gives, or -1 with EIO
ReadFaults == IF faults THEN {"none", "EIO"} ELSE {"none"}

\* lines 27, 32, 36, 40: the failure tests of the four calls
SigemptysetFailed(rv) == rv < 0
SigaddsetFailed(rv) == rv < 0
SigmaskFailed(rv) == rv < 0
SignalfdFailed(fd) == fd < 0

\* lines 40-42: the mask a failed signalfd leaves: the return undoes nothing
\* of what pthread_sigmask did
RollBackMask(before, after) == before
KeepMask(before, after) == after

\* The whole of Inner::new for a list and the calls' results: the Result it
\* returns, the mask and the descriptor it leaves, and (history) the first call
\* that failed with the code the OS reported for it.
InnerNew(signals, e1, pm, sf) ==
    LET refused == FirstRefused(signals)
        set == SigSetOf(signals)
        fdrv == IF sf # "none" THEN -1
                ELSE IF FreeFds = {} THEN -1 ELSE Min(FreeFds)
        fderr == IF sf # "none" THEN sf ELSE "EMFILE"
    IN  IF SigemptysetFailed(e1)
        THEN [res |-> "err", code |-> "EINVAL", failed |-> "sigemptyset",
              oscode |-> "EINVAL", mask |-> sigmask, fd |-> 0, set |-> {}]
        ELSE IF SigaddsetFailed(IF refused # 0 THEN -1 ELSE 0)
        THEN [res |-> "err", code |-> "EINVAL", failed |-> "sigaddset",
              oscode |-> "EINVAL", mask |-> sigmask, fd |-> 0, set |-> {}]
        ELSE IF SigmaskFailed(pm)
        THEN [res |-> "err", code |-> "EINVAL", failed |-> "pthread_sigmask",
              oscode |-> "EINVAL", mask |-> sigmask, fd |-> 0, set |-> {}]
        ELSE LET mask2 == IF pm = 0 THEN BlockMask(sigmask, set) ELSE sigmask
                 first == IF pm # 0 THEN "pthread_sigmask" ELSE "none"
             IN  IF SignalfdFailed(fdrv)
                 THEN [res |-> "err", code |-> fderr,
                       failed |-> IF first # "none" THEN first ELSE "signalfd",
                       oscode |-> IF first # "none" THEN "EINVAL" ELSE fderr,
                       mask |-> KeepMask(sigmask, mask2), fd |-> 0, set |-> {}]
                 ELSE [res |-> "ok", code |-> "none", failed |-> first,
                       oscode |-> IF first # "none" THEN "EINVAL" ELSE "none",
                       mask |-> mask2, fd |-> fdrv, set |-> set]

\* SignalFd::new (lines 94-97): Inner::new, then PollEvented::new, which
\* registers nothing yet
New(signals) ==
    /\ ThreadFree
    /\ FreeSids # {}
    /\ \E e1 \in SigemptysetResults, pm \in PthreadSigmaskResults, sf \in SignalfdFaults :
         LET r == InnerNew(signals, e1, pm, sf)
             s == Min(FreeSids)
         IN  /\ sigmask' = r.mask
             /\ ret' = [NoRet EXCEPT !.op = "new", !.res = r.res, !.code = r.code,
                                     !.failed = r.failed, !.oscode = r.oscode,
                                     !.sid = IF r.res = "ok" THEN s ELSE 0]
             /\ IF r.res = "ok"
                THEN /\ files' = [files EXCEPT ![r.fd] =
                                    [kind |-> "signalfd", mask |-> r.set \ Unblockable,
                                     nonblock |-> TRUE]]
                     /\ streams' = [streams EXCEPT ![s] =
                                    [NoStream EXCEPT !.st = "live", !.fd = r.fd,
                                        !.viaNew = TRUE, !.set = Range(signals),
                                        !.runnable = TRUE]]
                ELSE UNCHANGED <<files, streams>>
    /\ UNCHANGED <<faults, proc, pending, held, epoll, rdlist, pc, raised>>

(***************************************************************************)
(* A signal is sent to the thread (libc::raise, kill, the terminal).       *)
(***************************************************************************)
Raise(sig) ==
    /\ proc = "running"
    /\ Len(raised) < MaxRaises
    /\ raised' = Append(raised, [sig |-> sig,
                                  queued |-> sig \in sigmask /\ sig \notin pending])
    /\ IF sig \notin sigmask
       THEN \* not blocked: the default disposition of these signals ends the
            \* process, and with it its descriptors, its streams and its thread
            /\ proc' = "killed"
            /\ pending' = {}
            /\ files' = [fd \in Fd |-> NoFile]
            /\ held' = {}
            /\ epoll' = [fd \in Fd |-> 0]
            /\ rdlist' = {}
            /\ streams' = [s \in Sid |-> NoStream]
            /\ pc' = Idle
            /\ ret' = NoRet
       ELSE IF sig \in pending
       THEN \* a standard signal already pending is not queued again
            UNCHANGED <<proc, pending, rdlist, files, held, epoll, streams, pc, ret>>
       ELSE /\ pending' = pending \cup {sig}
            \* signalfd_notify wakes the signalfd waiters of the process
            /\ rdlist' = rdlist \cup {fd \in Fd : epoll[fd] # 0 /\ files[fd].kind = "signalfd"}
            /\ UNCHANGED <<proc, files, held, epoll, streams, pc, ret>>
    /\ UNCHANGED <<faults, sigmask>>

(***************************************************************************)
(* Descriptors made outside the crate, for from_raw_fd: a signalfd over    *)
(* SIGINT, made with or without SFD_NONBLOCK, or a descriptor of another   *)
(* kind (an eventfd, a socket at end of file).                             *)
(***************************************************************************)
ExternalKinds == {<<"signalfd", FALSE>>, <<"other", TRUE>>}

ExternalOpen(kind, nonblock) ==
    /\ ThreadFree
    /\ FreeFds # {}
    /\ held = {}
    /\ LET fd == Min(FreeFds)
       IN  /\ files' = [files EXCEPT ![fd] =
                          [kind |-> kind,
                           mask |-> IF kind = "signalfd" THEN {SIGINT} ELSE {},
                           nonblock |-> nonblock]]
           /\ held' = held \cup {fd}
           /\ ret' = [NoRet EXCEPT !.op = "open", !.fd = fd]
    /\ UNCHANGED <<faults, proc, sigmask, pending, epoll, rdlist, streams, pc, raised>>

(***************************************************************************)
(* as_raw_fd (lines 100-104) and from_raw_fd (lines 106-110).              *)
(***************************************************************************)
RawFdNone(s) == 0
RawFdOf(s) == streams[s].fd

AsRawFd(s) ==
    /\ ThreadFree
    /\ Live(s)
    /\ ret' = [NoRet EXCEPT !.op = "as_raw_fd", !.sid = s, !.fd = RawFdOf(s)]
    /\ UNCHANGED <<faults, proc, sigmask, pending, files, held, epoll, rdlist, streams,
                   pc, raised>>

\* the live streams built on the file now open at descriptor fd
OwnersOf(fd) == {o \in Sid : Live(o) /\ streams[o].fd = fd /\ ~streams[o].lost}

\* from_raw_fd(fd): the caller passes a descriptor it holds, or the number
\* as_raw_fd has just returned; nothing is checked and nothing is registered yet
FromRawFd(fd) ==
    /\ ThreadFree
    /\ FreeSids # {}
    /\ fd \in held \cup (IF ret.op = "as_raw_fd" THEN {ret.fd} ELSE {})
    /\ IsOpen(fd)
    /\ LET s == Min(FreeSids)
           alias == OwnersOf(fd) # {}
       IN  /\ streams' = [o \in Sid |->
                IF o = s
                THEN [NoStream EXCEPT !.st = "live", !.fd = fd, !.runnable = TRUE,
                                      !.shared = alias]
                ELSE IF o \in OwnersOf(fd)
                THEN [streams[o] EXCEPT !.shared = TRUE]
                ELSE streams[o]]
           /\ ret' = [NoRet EXCEPT !.op = "from_raw_fd", !.sid = s, !.fd = fd]
    /\ held' = held \ {fd}
    /\ UNCHANGED <<faults, proc, sigmask, pending, files, epoll, rdlist, pc, raised>>

(***************************************************************************)
(* The kernel's side of a descriptor.                                      *)
(***************************************************************************)
\* a read would return at once with data
Readable(fd) ==
    \/ files[fd].kind = "other"
    \/ files[fd].kind = "signalfd" /\ pending \cap files[fd].mask # {}

\* u32 to its four bytes in native (little-endian) order, and the record the
\* kernel writes for a signal: ssi_signo first, 124 more bytes
ToNeBytes(n) == [i \in 1..4 |-> (n \div (256 ^ (i - 1))) % 256]
KernelRecord(sig) == [i \in 1..RecordSize |-> IF i <= 4 THEN ToNeBytes(sig)[i] ELSE 0]
ZeroBuf == [i \in 1..RecordSize |-> 0]

\* what a descriptor of another kind returns to a read of 128 bytes: end of
\* file, or a short object (an eventfd's counter)
OtherReadCounts == {0, 8}

\* libc::read(fd, buf, 128): rv, errno, the buffer, and the signal it took out
\* of the pending set (0: none). A signalfd hands out the lowest pending
\* signal of its mask; "block" is a read that does not return yet.
KernelRead(fd, n) ==
    IF ~IsOpen(fd)
    THEN [rv |-> -1, errno |-> "EBADF", buf |-> ZeroBuf, took |-> 0]
    ELSE IF files[fd].kind = "other"
    THEN [rv |-> n, errno |-> "none", buf |-> ZeroBuf, took |-> 0]
    ELSE IF pending \cap files[fd].mask # {}
    THEN LET sig == Min(pending \cap files[fd].mask)
         IN  [rv |-> RecordSize, errno |-> "none", buf |-> KernelRecord(sig), took |-> sig]
    ELSE IF files[fd].nonblock
    THEN [rv |-> -1, errno |-> "EAGAIN", buf |-> ZeroBuf, took |-> 0]
    ELSE [rv |-> -1, errno |-> "block", buf |-> ZeroBuf, took |-> 0]

(***************************************************************************)
(* Inner as io::Read (lines 54-63) and as Evented (lines 65-89).           *)
(***************************************************************************)
InnerReadNoCheck(k) == [ok |-> TRUE, n |-> IF k.rv < 0 THEN 0 ELSE k.rv, err |-> "none"]
InnerRead(k) ==
    IF k.rv < 0
    THEN [ok |-> FALSE, n |-> 0, err |-> k.errno]
    ELSE [ok |-> TRUE, n |-> k.rv, err |-> "none"]

\* epoll_ctl(ADD) on the descriptor the Inner holds: the interest list after
\* it, and whether it failed (closed descriptor, or one already registered)
RegisterNothing(fd, token) == [ok |-> TRUE, epoll |-> epoll]
EventedRegister(fd, token) ==
    IF ~IsOpen(fd) \/ epoll[fd] # 0
    THEN [ok |-> FALSE, epoll |-> epoll]
    ELSE [ok |-> TRUE, epoll |-> [epoll EXCEPT ![fd] = token]]

\* epoll_ctl(DEL): whatever registration the descriptor number has
EventedDeregister(fd) == [epoll EXCEPT ![fd] = 0]

\* what epoll_ctl(DEL) returns for a descriptor number, given the descriptor
\* table at the call
EpollCtlDel(fd, table) ==
    IF table[fd].kind = "none" THEN "EBADF"
    ELSE IF epoll[fd] = 0 THEN "ENOENT" ELSE "ok"

(***************************************************************************)
(* tokio_reactor::PollEvented, as the stream drives it.                    *)
(***************************************************************************)
\* poll_read_ready on a registered PollEvented p: the cached readiness, else
\* the registration's; with neither, the task is parked as the reader
ReadyFromReactorOnly(p) ==
    IF p.ioReady
    THEN [ready |-> TRUE, p |-> [p EXCEPT !.ioReady = FALSE, !.cached = TRUE]]
    ELSE [ready |-> FALSE, p |-> [p EXCEPT !.waiting = TRUE]]
PollReadReady(p) ==
    IF p.cached
    THEN [ready |-> TRUE, p |-> [p EXCEPT !.ioReady = FALSE]]
    ELSE IF p.ioReady
    THEN [ready |-> TRUE, p |-> [p EXCEPT !.ioReady = FALSE, !.cached = TRUE]]
    ELSE [ready |-> FALSE, p |-> [p EXCEPT !.waiting = TRUE]]

\* clear_read_ready after a would-block read: drop the cache, poll the
\* registration again, and notify the task if it turned ready meanwhile
ClearAndForget(p) == [p EXCEPT !.cached = FALSE, !.runnable = FALSE]
ClearReadReady(p) ==
    LET r == PollReadReady([p EXCEPT !.cached = FALSE])
    IN  [r.p EXCEPT !.runnable = r.ready]

(***************************************************************************)
(* <SignalFd as Stream>::poll (lines 128-143).                             *)
(***************************************************************************)
\* lines 137-139: i32::from_ne_bytes(buf[0..4])
\* the top byte carries the sign (two's complement, 32 bits)
SignedByte(x) == IF x >= 128 THEN x - 256 ELSE x
FromBeBytes(b) == b[4] + 256 * b[3] + 65536 * b[2] + 16777216 * SignedByte(b[1])
FromNeBytes(b) == b[1] + 256 * b[2] + 65536 * b[3] + 16777216 * SignedByte(b[4])
SignumBigEndian(buf) == FromBeBytes([i \in 1..4 |-> buf[i]])
Signum(buf) == FromNeBytes([i \in 1..4 |-> buf[i]])

\* lines 133-142: the outcome of poll for what poll_read returned
\* (r: the Result of the read, buf: the buffer after it)
\* (faulty variants first: zero bytes read as the end of the stream, no check
\* of the count, a record dropped, a buffer decoded after would-block)
OutcomeEndOnZero(r, buf) ==
    IF ~r.ok
    THEN IF r.err = "EAGAIN" THEN [res |-> "NotReady", val |-> 0]
                             ELSE [res |-> "Err", val |-> 0]
    ELSE IF r.n = 0 THEN [res |-> "End", val |-> 0]
    ELSE IF r.n # RecordSize THEN [res |-> "panic", val |-> 0]
    ELSE [res |-> "Ready", val |-> Signum(buf)]
OutcomeNoSizeCheck(r, buf) ==
    IF ~r.ok
    THEN IF r.err = "EAGAIN" THEN [res |-> "NotReady", val |-> 0]
                             ELSE [res |-> "Err", val |-> 0]
    ELSE [res |-> "Ready", val |-> Signum(buf)]
OutcomeDropRecord(r, buf) ==
    IF ~r.ok
    THEN IF r.err = "EAGAIN" THEN [res |-> "NotReady", val |-> 0]
                             ELSE [res |-> "Err", val |-> 0]
    ELSE IF r.n # RecordSize THEN [res |-> "panic", val |-> 0]
    ELSE [res |-> "NotReady", val |-> 0]
OutcomeDecodeAlways(r, buf) ==
    IF ~r.ok /\ r.err # "EAGAIN" THEN [res |-> "Err", val |-> 0]
    ELSE IF r.ok /\ r.n # RecordSize THEN [res |-> "panic", val |-> 0]
    ELSE [res |-> "Ready", val |-> Signum(buf)]
PollOutcome(r, buf) ==
    IF ~r.ok
    THEN IF r.err = "EAGAIN" THEN [res |-> "NotReady", val |-> 0]
                             ELSE [res |-> "Err", val |-> 0]
    ELSE IF r.n # RecordSize THEN [res |-> "panic", val |-> 0]
    ELSE [res |-> "Ready", val |-> Signum(buf)]

\* line 131: try_ready!(poll_read_ready(readable)); the first call registers
\* the descriptor with the reactor (edge-triggered: a descriptor readable at
\* that moment is reported once)
PollBegin(s) ==
    /\ ThreadFree
    /\ Live(s)
    /\ streams[s].runnable
    /\ LET p == streams[s]
           reg == IF p.reg = "init" THEN EventedRegister(p.fd, s)
                                    ELSE [ok |-> p.reg = "ok", epoll |-> epoll]
       IN  IF ~reg.ok
           THEN /\ streams' = [streams EXCEPT ![s] = [p EXCEPT !.reg = "error",
                                                               !.erred = TRUE]]
                /\ ret' = [NoRet EXCEPT !.op = "poll", !.sid = s, !.res = "Err",
                                        !.failed = "register"]
                /\ UNCHANGED <<epoll, rdlist, pc>>
           ELSE LET r == PollReadReady([p EXCEPT !.reg = "ok"])
                IN  /\ epoll' = reg.epoll
                    /\ rdlist' = IF p.reg = "init" /\ reg.epoll[p.fd] = s /\ Readable(p.fd)
                                 THEN rdlist \cup {p.fd} ELSE rdlist
                    /\ IF r.ready
                       THEN /\ streams' = [streams EXCEPT ![s] = r.p]
                            /\ pc' = [sid |-> s, at |-> "read"]
                            /\ ret' = [NoRet EXCEPT !.op = "poll", !.sid = s,
                                                    !.res = "running"]
                       ELSE /\ streams' = [streams EXCEPT ![s] =
                                            [r.p EXCEPT !.runnable = FALSE]]
                            /\ pc' = Idle
                            /\ ret' = [NoRet EXCEPT !.op = "poll", !.sid = s,
                                                    !.res = "NotReady"]
    /\ UNCHANGED <<faults, proc, sigmask, pending, files, held, raised>>

\* the name of what the read returned, for the history
ReadName(k) ==
    IF k.rv < 0 THEN k.errno
    ELSE IF k.rv = RecordSize THEN "record"
    ELSE IF k.rv = 0 THEN "zero" ELSE "short"

\* lines 133-141: poll_read (PollEvented's read: the descriptor's read, and on
\* would-block the cache is cleared and the task parked again), the assertion
\* and the decoding
PollRead(s) ==
    /\ proc = "running"
    /\ pc.sid = s
    /\ \E n \in OtherReadCounts, rf \in ReadFaults :
         LET p == PollReadReady(streams[s]).p
             k == IF rf = "none" THEN KernelRead(p.fd, n)
                  ELSE [rv |-> -1, errno |-> rf, buf |-> ZeroBuf, took |-> 0]
         IN  IF k.errno = "block"
             THEN /\ pc.at = "read"
                  /\ pc' = [pc EXCEPT !.at = "blocked"]
                  /\ streams' = [streams EXCEPT ![s] = p]
                  /\ UNCHANGED <<pending, ret>>
             ELSE LET r == InnerRead(k)
                      o == PollOutcome(r, k.buf)
                      q == IF ~r.ok /\ r.err = "EAGAIN" THEN ClearReadReady(p) ELSE p
                  IN  /\ pc' = Idle
                      /\ pending' = pending \ {k.took}
                      /\ streams' = [streams EXCEPT ![s] =
                            [q EXCEPT !.out = IF o.res = "Ready" THEN Append(@, o.val)
                                                                 ELSE @,
                                      !.erred = @ \/ o.res = "Err"]]
                      /\ ret' = [NoRet EXCEPT !.op = "poll", !.sid = s, !.res = o.res,
                                    !.val = o.val, !.read = ReadName(k),
                                    !.code = IF o.res = "Err" THEN r.err ELSE "none"]
    /\ UNCHANGED <<faults, proc, sigmask, files, held, epoll, rdlist, raised>>

(***************************************************************************)
(* The reactor: epoll_wait and the dispatch of one woken descriptor.       *)
(***************************************************************************)
ReactorTurn(fd) ==
    /\ proc = "running"
    /\ fd \in rdlist
    /\ rdlist' = rdlist \ {fd}
    /\ IF epoll[fd] # 0 /\ Readable(fd)
       THEN streams' = [streams EXCEPT ![epoll[fd]] =
                          [@ EXCEPT !.ioReady = TRUE,
                                    !.runnable = @ \/ streams[epoll[fd]].waiting,
                                    !.waiting = FALSE]]
       ELSE UNCHANGED streams
    /\ UNCHANGED <<faults, proc, sigmask, pending, files, held, epoll, pc, raised, ret>>

(***************************************************************************)
(* Teardown: PollEvented's drop deregisters, then <Inner as Drop>::drop    *)
(* (lines 48-52) closes.                                                   *)
(***************************************************************************)
\* line 50: the descriptor table after close(fd)
NoClose(fd) == files
CloseFd(fd) == [files EXCEPT ![fd] = NoFile]

\* PollEvented's drop calls <Inner as Evented>::deregister (lines 86-88) on the
\* Inner it still holds, and only then lets the Inner go (its drop closes):
\* the deregistration sees the descriptor table before the close
DeregisterAfterClose(fd) == EpollCtlDel(fd, CloseFd(fd))
DeregisterOutcome(fd) == EpollCtlDel(fd, files)

Drop(s) ==
    /\ ThreadFree
    /\ Live(s)
    /\ LET p == streams[s]
           wasOpen == IsOpen(p.fd)
           ep1 == IF p.reg = "ok" THEN EventedDeregister(p.fd) ELSE epoll
           files2 == CloseFd(p.fd)
           closed == wasOpen /\ files2[p.fd].kind = "none"
       IN  /\ files' = files2
           \* the kernel drops a closed file from every interest list
           /\ epoll' = IF closed THEN [ep1 EXCEPT ![p.fd] = 0] ELSE ep1
           /\ rdlist' = IF epoll'[p.fd] = 0 THEN rdlist \ {p.fd} ELSE rdlist
           /\ streams' = [o \in Sid |->
                    IF o = s THEN [NoStream EXCEPT !.st = "dropped", !.shared = p.shared]
                    ELSE IF closed /\ o \in OwnersOf(p.fd)
                    THEN [streams[o] EXCEPT !.lost = TRUE]
                    ELSE streams[o]]
           \* close reports an error or not; the descriptor is released either
           \* way, and drop returns nothing
           /\ \E fails \in BOOLEAN :
                ret' = [NoRet EXCEPT !.op = "drop", !.sid = s, !.fd = p.fd,
                          !.shared = p.shared, !.lost = p.lost,
                          !.dereg = IF p.reg = "ok" THEN DeregisterOutcome(p.fd)
                                                    ELSE "none",
                          !.parked = p.waiting /\ ~p.runnable,
                          !.pend = pending,
                          !.res = IF wasOpen /\ ~closed THEN "open" ELSE "closed",
                          !.code = IF ~wasOpen THEN "EBADF"
                                   ELSE IF fails THEN "EIO" ELSE "none"]
    /\ UNCHANGED <<faults, proc, sigmask, pending, held, pc, raised>>

Next ==
    \/ \E signals \in SignalLists : New(signals)
    \/ \E sig \in Sigs : Raise(sig)
    \/ \E k \in ExternalKinds : ExternalOpen(k[1], k[2])
    \/ \E s \in Sid : AsRawFd(s)
    \/ \E fd \in Fd : FromRawFd(fd)
    \/ \E s \in Sid : PollBegin(s)
    \/ \E s \in Sid : PollRead(s)
    \/ \E fd \in Fd : ReactorTurn(fd)
    \/ \E s \in Sid : Drop(s)

Spec == Init /\ [][Next]_vars

\* The same program where the libc calls of Inner::new may also fail the way
\* POSIX documents them: sigemptyset -1, pthread_sigmask an error number,
\* signalfd -1 with ENOMEM.
InitFaults ==
    /\ faults = TRUE
    /\ proc = "running"
    /\ sigmask = {}
    /\ pending = {}
    /\ files = [fd \in Fd |-> NoFile]
    /\ held = {}
    /\ epoll = [fd \in Fd |-> 0]
    /\ rdlist = {}
    /\ streams = [s \in Sid |-> NoStream]
    /\ pc = Idle
    /\ raised = <<>>
    /\ ret = NoRet

SpecFaults == InitFaults /\ [][Next]_vars

\* The event loop is fair: the reactor dispatches what it was woken for, the
\* executor polls a task that was notified, and a poll that began goes on.
FairSpec ==
    /\ Init /\ [][Next]_vars
    /\ \A fd \in Fd : WF_vars(ReactorTurn(fd))
    /\ \A s \in Sid : WF_vars(PollBegin(s)) /\ WF_vars(PollRead(s))

(***************************************************************************)
(* The claims.                                                             *)
(***************************************************************************)
Count(q, x) == Cardinality({i \in 1..Len(q) : q[i] = x})
QueuedRaises(sig) == Cardinality({i \in 1..Len(raised) : raised[i] = [sig |-> sig, queued |-> TRUE]})
RaisedSigs == [i \in 1..Len(raised) |-> raised[i].sig]
Blockable(S) == S \ Unblockable

\* s was built by SignalFd::new, is alive, and is the only stream and the only
\* descriptor the process has had
Sole(s) ==
    /\ proc = "running"
    /\ Live(s) /\ streams[s].viaNew
    /\ held = {}
    /\ \A o \in Sid \ {s} : streams[o].st = "none"

\* from_raw_fd was once given a descriptor that a live stream owned: two
\* streams held one descriptor number (the flag outlives the streams)
Aliased == \E s \in Sid : streams[s].shared

\* s was built by SignalFd::new, is alive, and from_raw_fd was never given a
\* descriptor that a stream owned
Own(s) == Live(s) /\ streams[s].viaNew /\ ~Aliased

\* C1, as stated: every raise of a signal of S gives exactly one element.  In a
\* finite run: for the only stream of the process, the elements produced and
\* the records still to be read are as many as the raises.
C1_EveryRaiseCounts ==
    \A s \in Sid : Sole(s) =>
        Len(streams[s].out) + Cardinality(pending \cap streams[s].set) = Len(raised)

\* C1, amended: for the only stream of the process, built over S, every element
\* is a number of S, and for each blockable signal of S the elements equal to it
\* plus the record still to be read are exactly the raises that found it not
\* already pending: such a raise is neither lost nor produced twice, its value
\* is the number inserted, and a raise of a signal already pending adds nothing.
C1_EveryQueuedRaiseCounts ==
    \A s \in Sid : Sole(s) =>
        /\ Range(streams[s].out) \subseteq streams[s].set
        /\ \A sig \in Blockable(streams[s].set) :
              Count(streams[s].out, sig) + (IF sig \in pending THEN 1 ELSE 0)
                  = QueuedRaises(sig)

\* two raises of one signal met one pending record, and the stream produced it
C1_Witness ==
    \E s \in Sid :
        /\ Sole(s)
        /\ streams[s].out = <<SIGINT>>
        /\ Len(raised) = 2
        /\ raised[1].sig = SIGINT /\ raised[2] = [sig |-> SIGINT, queued |-> FALSE]

\* C2, as stated: over {SIGINT, SIGTERM}, SIGTERM raised and then SIGINT are
\* produced as [SIGTERM, SIGINT], however the polls fall.
C2_RaiseOrder ==
    \A s \in Sid :
        (/\ Sole(s)
         /\ streams[s].set = {SIGINT, SIGTERM}
         /\ RaisedSigs = <<SIGTERM, SIGINT>>
         /\ Len(streams[s].out) = 2)
        => streams[s].out = <<SIGTERM, SIGINT>>

\* C2, amended: a read hands out the lowest-numbered pending signal of the set:
\* every element a stream built over S produces is the least signal of S
\* pending at that read.  So SIGTERM then SIGINT come out as [SIGTERM, SIGINT]
\* when SIGTERM is read before SIGINT is raised, and as [SIGINT, SIGTERM] when
\* both are pending at the first read.
C2_LowestPendingFirst ==
    [][\A s \in Sid :
         (Own(s) /\ Len(streams'[s].out) > Len(streams[s].out)) =>
            /\ pending \cap streams[s].set # {}
            /\ streams'[s].out =
                 Append(streams[s].out, Min(pending \cap streams[s].set))]_vars

\* both were pending at the first read: the order produced is not the order raised
C2_Witness ==
    \E s \in Sid :
        /\ Sole(s)
        /\ streams[s].set = {SIGINT, SIGTERM}
        /\ RaisedSigs = <<SIGTERM, SIGINT>>
        /\ streams[s].out = <<SIGINT, SIGTERM>>

\* C3, as stated: once new(S) returned Ok every signal of S is blocked.
C3_AllBlocked ==
    \A s \in Sid : (Live(s) /\ streams[s].viaNew) => streams[s].set \subseteq sigmask

\* C3, amended: once new(S) returned Ok every signal of S other than SIGKILL
\* and SIGSTOP is blocked in the calling thread's mask, and a signal that ended
\* the process was not a blocked one: raising a blocked signal of S only makes
\* it pending.
C3_BlockableBlocked ==
    /\ \A s \in Sid :
          (Live(s) /\ streams[s].viaNew) => Blockable(streams[s].set) \subseteq sigmask
    /\ proc = "killed" => raised[Len(raised)].sig \notin sigmask
    /\ proc = "running" => pending \subseteq sigmask

\* a signal of S was raised, the process runs on and the signal is pending
C3_Witness ==
    \E s \in Sid :
        /\ proc = "running"
        /\ Live(s) /\ streams[s].viaNew
        /\ SIGINT \in streams[s].set
        /\ Len(raised) > 0 /\ raised[Len(raised)].sig = SIGINT
        /\ SIGINT \in pending

\* the elements produced by the streams SignalFd::new built
RECURSIVE Produced(_)
Produced(S) ==
    IF S = {} THEN 0
    ELSE LET s == CHOOSE x \in S : TRUE
         IN  (IF streams[s].viaNew /\ ~Aliased THEN Len(streams[s].out) ELSE 0)
             + Produced(S \ {s})

\* C4: a poll of a stream built over S, made while no signal of S is pending,
\* produces nothing and returns NotReady (or is still before its read); and the
\* elements produced are never more than the signals raised.
C4_NoSpuriousValue ==
    /\ [](Produced(Sid) <= Len(raised))
    /\ [][\A s \in Sid :
            (/\ PollBegin(s) \/ PollRead(s)
             /\ Own(s)
             /\ pending \cap streams[s].set = {})
            => /\ streams'[s].out = streams[s].out
               /\ ret'.res \in {"NotReady", "running"}]_vars

\* a poll went as far as the read with nothing pending, and returned NotReady
C4_Witness ==
    /\ ret.op = "poll" /\ ret.res = "NotReady" /\ ret.read = "EAGAIN"
    /\ Own(ret.sid)
    /\ Len(streams[ret.sid].out) = 1

\* C5: a stream built over S produces numbers of S only.
C5_OnlySignalsOfTheSet ==
    \A s \in Sid : Own(s) => Range(streams[s].out) \subseteq streams[s].set

\* SIGTERM was raised and read by another stream; the stream over SIGINT alone
\* produced SIGINT only
C5_Witness ==
    \E a, b \in Sid :
        /\ a # b /\ Own(a) /\ Own(b)
        /\ streams[a].set = {SIGINT} /\ streams[a].out = <<SIGINT>>
        /\ streams[b].out = <<SIGTERM>>

\* s is the only stream of the process in the next state too
SoleNext(s) ==
    /\ proc' = "running"
    /\ streams'[s].st = "live"

\* C6: for the only stream of the process, built over S and kept by its task:
\* whenever a signal of S is pending, whatever the poll was doing when it was
\* raised, the pending record is eventually taken (or the stream is dropped, or
\* the process killed by another signal, first), and the step that takes it is
\* a poll of the stream producing the signal's number as its next element.
C6_NoLostWakeup ==
    /\ \A s \in Sid : \A sig \in {SIGINT, SIGTERM} :
          (Sole(s) /\ sig \in pending \cap streams[s].set)
              ~> (sig \notin pending \/ ~Sole(s))
    /\ [][\A s \in Sid : \A sig \in {SIGINT, SIGTERM} :
            (Sole(s) /\ SoleNext(s) /\ sig \in pending \cap streams[s].set
                /\ sig \notin pending')
            => /\ streams'[s].out = Append(streams[s].out, sig)
               /\ ret'.op = "poll" /\ ret'.res = "Ready" /\ ret'.val = sig]_vars

\* the signal was raised while the task was suspended after a would-block
\* read: the reactor has the event and the task is parked
C6_Witness ==
    \E s \in Sid :
        /\ Sole(s)
        /\ SIGINT \in pending \cap streams[s].set
        /\ ~streams[s].runnable /\ streams[s].waiting
        /\ streams[s].fd \in rdlist
        /\ ret.op = "poll" /\ ret.res = "NotReady" /\ ret.read = "EAGAIN"

\* C7: poll returns NotReady, Ready(Some(number)), an I/O error or fails an
\* assertion (or is between its readiness check and its read), never the end
\* of the stream; a read of zero bytes is an assertion failure; and after an
\* element the stream is alive with its readiness still cached and its task
\* runnable, so that the next poll reads again.
C7_NeverEnds ==
    ret.op = "poll" =>
        /\ ret.res \in {"running", "NotReady", "Ready", "Err", "panic"}
        /\ ret.read = "zero" => ret.res = "panic"
        /\ ret.res = "Ready" =>
              /\ Live(ret.sid)
              /\ pc = Idle
              /\ streams[ret.sid].runnable
              /\ Len(streams[ret.sid].out) > 0

\* a stream over a descriptor that reads zero bytes: the poll panicked
C7_Witness ==
    ret.op = "poll" /\ ret.read = "zero" /\ ret.res = "panic"

\* a second element after a first
C7_FurtherElement ==
    ret.op = "poll" /\ ret.res = "Ready" /\ Len(streams[ret.sid].out) = 2

\* C8: a read that succeeds with a count other than the record size makes poll
\* fail its assertion, and an element is only ever decoded from a read of
\* exactly one record.
C8_WrongCountPanics ==
    ret.op = "poll" =>
        /\ ret.read \in {"zero", "short"} => ret.res = "panic"
        /\ ret.res = "Ready" => ret.read = "record"
        /\ ret.res = "panic" => ret.read \in {"zero", "short"}

\* a read of 8 bytes: the poll panicked
C8_Witness ==
    ret.op = "poll" /\ ret.read = "short" /\ ret.res = "panic"

\* C9, as stated: whatever the constructions, every stream alive has its
\* descriptor open, and every teardown closes an open descriptor that no other
\* stream is left holding.
C9_ClosedExactlyOnce ==
    /\ \A s \in Sid : Live(s) => IsOpen(streams[s].fd) /\ ~streams[s].lost
    /\ ret.op = "drop" =>
          /\ ret.code # "EBADF"
          /\ ret.res = "closed"
          /\ \A o \in Sid : Live(o) => ~streams[o].lost

\* C9, amended: as long as from_raw_fd was never given a descriptor that a
\* stream owned (from_raw_fd(s.as_raw_fd()) makes two owners of one
\* descriptor): the descriptor of every stream alive is open, a teardown closes
\* a descriptor that was open, the descriptor is closed and out of the reactor
\* afterwards, and an error of close changes nothing.
C9_ClosedOnceUnlessAliased ==
    ~Aliased =>
        /\ \A s \in Sid : Live(s) => IsOpen(streams[s].fd) /\ ~streams[s].lost
        /\ ret.op = "drop" =>
              /\ ret.code \in {"none", "EIO"}
              /\ ret.res = "closed"
              /\ ~ret.lost
              /\ ~IsOpen(ret.fd)
              /\ epoll[ret.fd] = 0
              /\ streams[ret.sid].st = "dropped"

\* a teardown whose close reported an error
C9_Witness ==
    ret.op = "drop" /\ ~Aliased /\ ret.code = "EIO" /\ ~IsOpen(ret.fd)

\* C10: a call of SignalFd::new in which an OS call failed returns Err with
\* the error code of that call.
C10_EveryFailureIsReturned ==
    (ret.op = "new" /\ ret.failed # "none") =>
        ret.res = "err" /\ ret.code = ret.oscode

\* an invalid signal number: sigaddset failed and new returned its error
C10_InvalidSignal ==
    ret.op = "new" /\ ret.failed = "sigaddset" /\ ret.res = "err" /\ ret.code = "EINVAL"

\* C11: a call of SignalFd::new that returns Err leaves the descriptor table
\* and the streams as they were; when the call that failed is signalfd the
\* signals of the list are blocked all the same (nothing is rolled back), and
\* when it is sigemptyset or sigaddset the mask is as it was.
C11_FailedNewLeavesNothing ==
    [][\A signals \in SignalLists :
         (New(signals) /\ ret'.res = "err") =>
            /\ files' = files /\ streams' = streams /\ epoll' = epoll
            /\ ret'.failed \in {"sigemptyset", "sigaddset", "signalfd"}
            /\ ret'.failed = "signalfd" =>
                  sigmask' = sigmask \cup (Range(signals) \ Unblockable)
            /\ ret'.failed # "signalfd" => sigmask' = sigmask]_vars

\* new failed at signalfd (no descriptor left) after blocking SIGTERM, which
\* no stream of the process was built over
C11_Witness ==
    /\ ret.op = "new" /\ ret.res = "err" /\ ret.failed = "signalfd"
    /\ FreeFds = {}
    /\ SIGTERM \in sigmask
    /\ \A s \in Sid : SIGTERM \notin streams[s].set

\* some list was given to SignalFd::new in this step
NewStep == \E signals \in SignalLists : New(signals)

\* C12, as stated: a construction that reaches the mask step leaves blocked
\* the mask before it and the whole set of its list.
C12_MaskIsUnionOfSets ==
    [][\A signals \in SignalLists :
         (New(signals) /\ ret'.failed \notin {"sigemptyset", "sigaddset"})
            => sigmask' = sigmask \cup Range(signals)]_vars

\* C12, amended: no step takes a signal out of the mask of the thread; a
\* construction that reaches the mask step leaves blocked the mask before it
\* and the signals of its list other than SIGKILL and SIGSTOP, which cannot be
\* blocked; a construction that fails before that step, and every poll,
\* teardown and other operation, leave the mask as it was.
C12_MaskOnlyGrows ==
    [][/\ sigmask \subseteq sigmask'
       /\ \A signals \in SignalLists :
            New(signals) =>
               IF ret'.failed \in {"sigemptyset", "sigaddset"}
               THEN sigmask' = sigmask
               ELSE sigmask' = sigmask \cup Blockable(Range(signals))
       /\ ~NewStep => sigmask' = sigmask]_vars

\* SIGTERM was blocked by a construction whose stream is dropped, and is
\* blocked still
C12_Witness ==
    /\ ret.op = "drop"
    /\ sigmask = {SIGINT, SIGTERM}
    /\ \A s \in Sid : SIGTERM \notin streams[s].set
    /\ \E s \in Sid : Live(s) /\ streams[s].set = {SIGINT}

\* C13, as stated: once a poll of a stream has returned Err the stream
\* produces no further element.
C13_ErrorEndsTheSequence ==
    [][\A s \in Sid :
         streams[s].erred => Len(streams'[s].out) <= Len(streams[s].out)]_vars

\* C13, amended: a read that fails with anything but would-block makes that
\* poll return Err with the code of the read, at once: the call is not made
\* again, no element is appended and no pending record is taken; a failed
\* registration makes the poll return Err before any read, and every later
\* poll of that stream fails the same way.  (The stream has no state for "ended
\* by an error": a poll after a failed read reads again.)
C13_ErrorsAreReturned ==
    /\ [][\A s \in Sid :
            (PollRead(s) /\ ret'.read \in {"EIO", "EBADF"}) =>
               /\ ret'.op = "poll" /\ ret'.sid = s
               /\ ret'.res = "Err" /\ ret'.code = ret'.read
               /\ streams'[s].out = streams[s].out
               /\ pending' = pending
               /\ pc' = Idle]_vars
    /\ [][\A s \in Sid :
            (PollBegin(s) /\ ret'.failed = "register") =>
               /\ ret'.res = "Err"
               /\ streams'[s].out = streams[s].out
               /\ pending' = pending
               /\ pc' = Idle]_vars
    /\ [][\A s \in Sid :
            (streams[s].reg = "error" /\ streams'[s].st = "live") =>
               /\ streams'[s].reg = "error"
               /\ streams'[s].out = streams[s].out]_vars
    /\ [](ret.op = "poll" =>
             (ret.res = "Err" <=> (ret.failed = "register" \/ ret.read \in {"EIO", "EBADF"})))

\* a read failed after a first element, with a record still pending: the poll
\* returned the error and took nothing
C13_Witness ==
    /\ ret.op = "poll" /\ ret.res = "Err" /\ ret.code = "EIO"
    /\ Own(ret.sid)
    /\ Len(streams[ret.sid].out) = 1
    /\ pending \cap streams[ret.sid].set # {}

\* the poll after a failed read produced an element
C13_ElementAfterError ==
    /\ ret.op = "poll" /\ ret.res = "Ready"
    /\ Own(ret.sid)
    /\ streams[ret.sid].erred

\* C14, as stated: no poll of any stream waits in its read.
C14_NeverBlocks ==
    pc.at # "blocked"

\* the streams SignalFd::new built read a descriptor in non-blocking mode
C14_NewIsNonBlocking ==
    \A s \in Sid :
        (Own(s) /\ IsOpen(streams[s].fd)) => files[streams[s].fd].nonblock

\* C15: the reactor holds registrations and events only for descriptors that
\* are open, and each registration is that of a live stream holding that
\* descriptor; the teardown of a registered stream deregisters its descriptor
\* while it is still open (so before the close), and leaves no registration and
\* no event for it; a dropped stream has no task to wake; a turn of the reactor
\* touches only the live stream registered for the descriptor, and a raise
\* posts events only for registered descriptors.
C15_DropDeregisters ==
    /\ [](/\ \A fd \in Fd : ~IsOpen(fd) => epoll[fd] = 0 /\ fd \notin rdlist
          /\ \A fd \in Fd : epoll[fd] # 0 =>
                /\ Live(epoll[fd])
                /\ streams[epoll[fd]].fd = fd
                /\ streams[epoll[fd]].reg = "ok"
          /\ \A s \in Sid : streams[s].st = "dropped" =>
                ~streams[s].runnable /\ ~streams[s].waiting /\ ~streams[s].ioReady
          /\ (ret.op = "drop" /\ ~Aliased) =>
                /\ ret.dereg \in {"none", "ok"}
                /\ ret.parked => ret.dereg = "ok"
                /\ epoll[ret.fd] = 0 /\ ret.fd \notin rdlist /\ ~IsOpen(ret.fd))
    /\ [][\A fd \in Fd : ReactorTurn(fd) =>
            \A s \in Sid : streams'[s] # streams[s] =>
                Live(s) /\ streams[s].fd = fd /\ epoll[fd] = s]_vars
    /\ [][\A sig \in Sigs : Raise(sig) =>
            \A fd \in rdlist' \ rdlist : IsOpen(fd) /\ epoll[fd] # 0]_vars

\* a stream was dropped while its task was suspended; SIGINT was raised after
\* that: it is pending, and the reactor has no event and no task for it
C15_Witness ==
    /\ ret.op = "drop" /\ ret.parked /\ ret.dereg = "ok" /\ ~Aliased
    /\ ret.pend = {} /\ pending = {SIGINT}
    /\ rdlist = {}
    /\ \A s \in Sid : ~streams[s].runnable

\* C16: as_raw_fd returns the descriptor number the stream holds and changes
\* nothing: the descriptor table, the reactor's registrations and events, the
\* streams, the pending signals and the mask are as before; the number a
\* stream holds is the same all its life, so every call returns the same
\* value; and the descriptor returned is open (the stream still owns it, and
\* closes it at its teardown) as long as no from_raw_fd made it a second owner.
C16_AsRawFdChangesNothing ==
    /\ [][\A s \in Sid : AsRawFd(s) =>
            /\ ret'.op = "as_raw_fd" /\ ret'.fd = streams[s].fd
            /\ UNCHANGED <<faults, proc, sigmask, pending, files, held, epoll,
                           rdlist, streams, pc, raised>>]_vars
    /\ [][\A s \in Sid :
            (Live(s) /\ streams'[s].st = "live") => streams'[s].fd = streams[s].fd]_vars
    /\ []((ret.op = "as_raw_fd" /\ ~Aliased) =>
             /\ Live(ret.sid)
             /\ ret.fd = streams[ret.sid].fd
             /\ IsOpen(ret.fd))

\* as_raw_fd on a stream that is registered and parked, with a record pending
\* and its event not yet seen by the reactor: all of that is still there
C16_Witness ==
    /\ ret.op = "as_raw_fd"
    /\ Own(ret.sid)
    /\ streams[ret.sid].reg = "ok" /\ streams[ret.sid].waiting
    /\ epoll[ret.fd] = ret.sid
    /\ ret.fd \in rdlist
    /\ pending \cap streams[ret.sid].set # {}

\* C17: two lists with the same numbers, whatever the repetitions and the
\* order (<<SIGINT, SIGINT>> and <<SIGINT>>), are the same to SignalFd::new:
\* in every state and for the same results of the OS calls, Inner::new returns
\* the same and leaves the same mask and descriptor set, and every step that
\* is a construction over one list is a construction over the other, so that
\* the streams, and all they produce afterwards for any raises, are the same.
C17_DuplicatesChangeNothing ==
    /\ [](\A l1, l2 \in SignalLists : Range(l1) = Range(l2) =>
            \A e1 \in SigemptysetResults, pm \in PthreadSigmaskResults,
               sf \in SignalfdFaults :
                InnerNew(l1, e1, pm, sf) = InnerNew(l2, e1, pm, sf))
    /\ [][\A l1, l2 \in SignalLists :
            (Range(l1) = Range(l2) /\ New(l1)) => New(l2)]_vars

\* a stream built over <<SIGINT, SIGINT>> (the same step as over <<SIGINT>>):
\* SIGINT is the one signal blocked, it was raised once and produced once
C17_Witness ==
    \E s \in Sid :
        /\ Sole(s)
        /\ streams[s].set = Range(<<SIGINT, SIGINT>>)
        /\ sigmask = {SIGINT}
        /\ Len(raised) = 1
        /\ streams[s].out = <<SIGINT>>
        /\ pending = {}

\* C18: a read that reports would-block makes the poll return NotReady and no
\* error; it appends no element and takes no pending record; the cached
\* readiness is cleared, the registration is kept, and the task is parked as
\* the reader for the next event (or scheduled again at once, when an event
\* came in meanwhile).
C18_WouldBlockIsNotReady ==
    [][\A s \in Sid :
         (PollRead(s) /\ ret'.read = "EAGAIN") =>
            /\ ret'.op = "poll" /\ ret'.sid = s
            /\ ret'.res = "NotReady" /\ ret'.code = "none"
            /\ streams'[s].out = streams[s].out
            /\ streams'[s].erred = streams[s].erred
            /\ pending' = pending
            /\ pc' = Idle
            /\ ~streams'[s].cached
            /\ streams'[s].waiting \/ streams'[s].runnable
            /\ epoll' = epoll]_vars

\* two streams over SIGINT were woken for one record: the first read it, the
\* read of the second reported would-block and its task is parked again
C18_Witness ==
    \E a, b \in Sid :
        /\ a # b /\ Own(a) /\ Own(b)
        /\ streams[a].out = <<SIGINT>>
        /\ ret.op = "poll" /\ ret.sid = b /\ ret.read = "EAGAIN" /\ ret.res = "NotReady"
        /\ streams[b].out = <<>>
        /\ streams[b].waiting /\ ~streams[b].runnable
        /\ epoll[streams[b].fd] = b

\* C19: for a stream built by SignalFd::new: a read that returns a record
\* takes exactly one pending signal and appends exactly one element, and
\* leaves the readiness cached and the task scheduled; a poll that finds the
\* readiness cached goes to its read without the reactor; that read returns a
\* record as long as a signal of the set is pending and would-block (NotReady)
\* when none is.  So k pending records are produced by k polls after one
\* wake-up, and the poll after them returns NotReady.
C19_DrainsBehindOneEvent ==
    /\ [][\A s \in Sid :
            (PollRead(s) /\ Own(s) /\ pc' = Idle) =>
               IF pending \cap streams[s].set # {}
               THEN /\ ret'.read = "record" /\ ret'.res = "Ready"
                    /\ Len(streams'[s].out) = Len(streams[s].out) + 1
                    /\ Cardinality(pending') = Cardinality(pending) - 1
                    /\ streams'[s].cached /\ streams'[s].runnable
               ELSE /\ ret'.read = "EAGAIN" /\ ret'.res = "NotReady"
                    /\ ~streams'[s].cached]_vars
    /\ [][\A s \in Sid :
            (PollBegin(s) /\ streams[s].cached) =>
               /\ pc' = [sid |-> s, at |-> "read"]
               /\ rdlist' = rdlist /\ epoll' = epoll]_vars
    /\ [](\A s \in Sid : (Own(s) /\ streams[s].cached) => streams[s].runnable)

\* both signals were pending at the one wake-up; the first poll produced
\* SIGINT; SIGTERM is pending with no event left for the reactor, only the
\* cached readiness, and the task is scheduled
C19_Witness ==
    \E s \in Sid :
        /\ Sole(s)
        /\ ret.op = "poll" /\ ret.res = "Ready" /\ ret.val = SIGINT
        /\ streams[s].out = <<SIGINT>>
        /\ pending = {SIGTERM} /\ SIGTERM \in streams[s].set
        /\ rdlist = {} /\ ~streams[s].ioReady
        /\ streams[s].cached /\ streams[s].runnable

\* the two records were produced and the third poll returned NotReady
C19_Drained ==
    \E s \in Sid :
        /\ Sole(s)
        /\ streams[s].out = <<SIGINT, SIGTERM>>
        /\ ret.op = "poll" /\ ret.res = "NotReady" /\ ret.read = "EAGAIN"
=============================================================================
